---- MODULE Spec2Model ----
(***************************************************************************)
(* dns-pajatso: a minimal authoritative DNS server that holds one TXT      *)
(* record at _acme-challenge.<zone>, answers queries for the zone and      *)
(* accepts RFC 2136 updates authenticated with TSIG.                       *)
(*                                                                         *)
(* Names are sequences of labels, most significant label last.  The clock  *)
(* counts minutes and runs while the handlers run.                         *)
(***************************************************************************)
EXTENDS Integers, Sequences, FiniteSets, TLC

VARIABLES
    store,      \* the Store: [value, set, expiry]
    now,        \* time.Now(), in minutes
    req,        \* the message being handled, or the message or store call
                \* handled by the last step
    resp,       \* the response written by the last handler
    pre,        \* the store as it was before the last message or store call
    got,        \* the result of the last Store.Get call: <<value, found>>
    lastWrite,  \* the most recent Set or Delete call on the store, and when
    cycle,      \* the add, query, delete, query sequence of one client
    handlers,   \* the handler goroutines running concurrently
    mu,         \* the RWMutex of the Store
    lin         \* the Store as the Sets and Deletes that took effect leave it

vars == <<store, now, req, resp, pre, got, lastWrite, cycle, handlers, mu, lin>>

----------------------------------------------------------------------------
(* Bounds of the model *)

MaxTime == 15

TickStep == 5

MaxEntries == 2

NumHandlers == 2

----------------------------------------------------------------------------
(* Configuration, as in the tests: zone "example.com.", key "acme-update." *)

Zone == <<"example", "com">>

NS == <<"ns1", "example", "com">>

TsigName == <<"acme-update">>

recordTTL == 10

\* strings.ToLower on one label, over the labels the model uses
LowerLabel(l) ==
    CASE l = "EXAMPLE" -> "example"
      [] l = "COM" -> "com"
      [] l = "_ACME-Challenge" -> "_acme-challenge"
      [] OTHER -> l

ToLower(name) == [i \in 1..Len(name) |-> LowerLabel(name[i])]

\* dns.EqualName: the names are equal, letter case ignored
EqualName(a, b) == ToLower(a) = ToLower(b)

\* dnsutil.IsBelow: child is parent or a name under parent
IsBelow(parent, child) ==
    /\ Len(child) >= Len(parent)
    /\ SubSeq(ToLower(child), Len(child) - Len(parent) + 1, Len(child)) = ToLower(parent)

challengeName == <<"_acme-challenge">> \o Zone

soaRecord ==
    [name |-> Zone, class |-> "IN", type |-> "SOA", ttl |-> 300,
     ns |-> NS, mbox |-> <<"hostmaster">> \o Zone,
     serial |-> 1, refresh |-> 3600, retry |-> 600, expire |-> 86400, minttl |-> 300]

nsRecord ==
    [name |-> Zone, class |-> "IN", type |-> "NS", ttl |-> 300, ns |-> NS]

RECURSIVE JoinSpace(_)
\* Join as it would be with a space between the character-strings
JoinSpace(txt) ==
    IF txt = <<>> THEN ""
    ELSE IF Len(txt) = 1 THEN txt[1]
    ELSE txt[1] \o " " \o JoinSpace(Tail(txt))

\* strings.Join(txt, ""): the character-strings in order, no separator
RECURSIVE Join(_)
Join(txt) == IF txt = <<>> THEN "" ELSE Head(txt) \o Join(Tail(txt))

----------------------------------------------------------------------------
(* The Store *)

EmptyStore == [value |-> "", set |-> FALSE, expiry |-> 0]

\* Get as it would be without the expiry check
GetNoExpiry(s, t) ==
    IF ~s.set THEN <<"", FALSE>> ELSE <<s.value, TRUE>>

Get(s, t) ==
    IF ~s.set THEN <<"", FALSE>>
    ELSE IF t > s.expiry THEN <<"", FALSE>>
    ELSE <<s.value, TRUE>>

\* the Store after Get as it would be if Get removed a value it finds expired
GetSweep(s, t) ==
    IF s.set /\ t > s.expiry THEN [s EXCEPT !.value = "", !.set = FALSE] ELSE s

\* the Store after Get: Get holds the read lock and assigns no field
GetLeaves(s, t) == s

\* Set as it would be if it left the set flag alone
SetNoFlag(s, value, t) == [s EXCEPT !.value = value, !.expiry = t + recordTTL]

\* Set as it would be if a stored value were kept and only its expiry renewed
SetFirstWins(s, value, t) ==
    IF s.set THEN [s EXCEPT !.expiry = t + recordTTL]
    ELSE [value |-> value, set |-> TRUE, expiry |-> t + recordTTL]

\* Set as it would be if the expiry ran from the first Set of a stored value
SetKeepExpiry(s, value, t) ==
    IF s.set THEN [s EXCEPT !.value = value]
    ELSE [value |-> value, set |-> TRUE, expiry |-> t + recordTTL]

Set(s, value, t) == [value |-> value, set |-> TRUE, expiry |-> t + recordTTL]

\* Delete as it would be if it cleared the value and left the set flag
DeleteKeepFlag(s) == [s EXCEPT !.value = ""]

Delete(s) == [s EXCEPT !.value = "", !.set = FALSE]

----------------------------------------------------------------------------
(* Messages *)

NoTSIG == [present |-> FALSE, name |-> <<>>, macOK |-> FALSE]

\* dnsutil.SetReply on a new message: a response with no sections
SetReply(r) ==
    [rcode |-> "NOERROR", aa |-> FALSE, answer |-> <<>>, ns |-> <<>>, pseudo |-> <<>>]

\* writeMsg packs the message and copies it to the writer as it is
writeMsg(m) == m

hasTSIG(r) == r.tsig.present

\* dns.TSIGVerify: the MAC verifies against the configured secret
TSIGVerify(r) == r.tsig.macOK

\* the TXT answer as it would be with the TTL of the SOA and NS records
txtRecordTTL300(val) ==
    [name |-> challengeName, class |-> "IN", type |-> "TXT", ttl |-> 300, txt |-> <<val>>]

\* The TXT record handleQuery answers with
txtRecord(val) ==
    [name |-> challengeName, class |-> "IN", type |-> "TXT", ttl |-> 60, txt |-> <<val>>]

\* apexReply as it would be if type ANY were answered like type SOA
apexReplySOAOnly(m, qtype) ==
    CASE qtype = "SOA" -> [m EXCEPT !.answer = <<soaRecord>>]
      [] qtype = "ANY" -> [m EXCEPT !.answer = <<soaRecord>>]
      [] qtype = "NS" -> [m EXCEPT !.answer = <<nsRecord>>]
      [] OTHER -> [m EXCEPT !.ns = <<soaRecord>>]

\* handleQuery, the zone apex: the reply m with its sections filled in
apexReply(m, qtype) ==
    CASE qtype = "SOA" -> [m EXCEPT !.answer = <<soaRecord>>]
      [] qtype = "ANY" -> [m EXCEPT !.answer = <<soaRecord, nsRecord>>]
      [] qtype = "NS" -> [m EXCEPT !.answer = <<nsRecord>>]
      [] OTHER -> [m EXCEPT !.ns = <<soaRecord>>]

\* challengeReply as it would be without the SOA of the NODATA answer
challengeReplyNoSOA(m, qtype, g) ==
    IF (qtype = "TXT" \/ qtype = "ANY") /\ g[2]
    THEN [m EXCEPT !.answer = <<txtRecord(g[1])>>]
    ELSE m

\* handleQuery, the challenge name: the reply m with its sections filled in,
\* g being what Store.Get returns
challengeReply(m, qtype, g) ==
    LET answer ==
            IF (qtype = "TXT" \/ qtype = "ANY") /\ g[2]
            THEN <<txtRecord(g[1])>>
            ELSE <<>>
    IN
    IF Len(answer) = 0
    THEN [m EXCEPT !.ns = <<soaRecord>>]
    ELSE [m EXCEPT !.answer = answer]

\* handleQuery as it would be if the zone test had its arguments swapped
handleQuerySwapped(r, s, t) ==
    LET m == [SetReply(r) EXCEPT !.aa = TRUE] IN
    IF Len(r.question) = 0 THEN writeMsg([m EXCEPT !.rcode = "FORMERR"])
    ELSE
    LET q == r.question[1]
        qname == ToLower(q.name)
        qtype == q.type
    IN
    IF ~IsBelow(qname, Zone) THEN writeMsg([m EXCEPT !.rcode = "REFUSED"])
    ELSE IF EqualName(qname, Zone) THEN writeMsg(apexReply(m, qtype))
    ELSE IF EqualName(qname, challengeName)
    THEN writeMsg(challengeReply(m, qtype, Get(s, t)))
    ELSE writeMsg([m EXCEPT !.rcode = "NXDOMAIN", !.ns = <<soaRecord>>])

\* handleQuery as it would be if every name at or under the challenge name
\* were taken for the challenge name
handleQueryBelowChallenge(r, s, t) ==
    LET m == [SetReply(r) EXCEPT !.aa = TRUE] IN
    IF Len(r.question) = 0 THEN writeMsg([m EXCEPT !.rcode = "FORMERR"])
    ELSE
    LET q == r.question[1]
        qname == ToLower(q.name)
        qtype == q.type
    IN
    IF ~IsBelow(Zone, qname) THEN writeMsg([m EXCEPT !.rcode = "REFUSED"])
    ELSE IF EqualName(qname, Zone) THEN writeMsg(apexReply(m, qtype))
    ELSE IF IsBelow(challengeName, qname)
    THEN writeMsg(challengeReply(m, qtype, Get(s, t)))
    ELSE writeMsg([m EXCEPT !.rcode = "NXDOMAIN", !.ns = <<soaRecord>>])

\* handleQuery as it would be if a TSIG that does not verify were rejected
handleQueryVerify(r, s, t) ==
    IF r.tsig.present /\ ~TSIGVerify(r) THEN writeMsg([SetReply(r) EXCEPT !.rcode = "NOTAUTH"])
    ELSE
    LET m == [SetReply(r) EXCEPT !.aa = TRUE] IN
    IF Len(r.question) = 0 THEN writeMsg([m EXCEPT !.rcode = "FORMERR"])
    ELSE
    LET q == r.question[1]
        qname == ToLower(q.name)
        qtype == q.type
    IN
    IF ~IsBelow(Zone, qname) THEN writeMsg([m EXCEPT !.rcode = "REFUSED"])
    ELSE IF EqualName(qname, Zone) THEN writeMsg(apexReply(m, qtype))
    ELSE IF EqualName(qname, challengeName)
    THEN writeMsg(challengeReply(m, qtype, Get(s, t)))
    ELSE writeMsg([m EXCEPT !.rcode = "NXDOMAIN", !.ns = <<soaRecord>>])

handleQuery(r, s, t) ==
    LET m == [SetReply(r) EXCEPT !.aa = TRUE] IN
    IF Len(r.question) = 0 THEN writeMsg([m EXCEPT !.rcode = "FORMERR"])
    ELSE
    LET q == r.question[1]
        qname == ToLower(q.name)
        qtype == q.type
    IN
    IF ~IsBelow(Zone, qname) THEN writeMsg([m EXCEPT !.rcode = "REFUSED"])
    ELSE IF EqualName(qname, Zone) THEN writeMsg(apexReply(m, qtype))
    ELSE IF EqualName(qname, challengeName)
    THEN writeMsg(challengeReply(m, qtype, Get(s, t)))
    ELSE writeMsg([m EXCEPT !.rcode = "NXDOMAIN", !.ns = <<soaRecord>>])

\* authenticate as it would be without the MAC verification
authenticateNoVerify(r) ==
    IF ~r.parsable THEN "FORMERR"
    ELSE IF ~hasTSIG(r) THEN "REFUSED"
    ELSE IF ~EqualName(r.tsig.name, TsigName) THEN "NOTAUTH"
    ELSE ""

\* handleUpdate, steps before the zone section: the rcode of the first
\* failing check (parse, TSIG present, key name, MAC), "" when all pass
authenticate(r) ==
    IF ~r.parsable THEN "FORMERR"
    ELSE IF ~hasTSIG(r) THEN "REFUSED"
    ELSE IF ~EqualName(r.tsig.name, TsigName) THEN "NOTAUTH"
    ELSE IF ~TSIGVerify(r) THEN "NOTAUTH"
    ELSE ""

\* zoneSectionOK as it would be if only the number of entries were checked
zoneSectionOne(r) == Len(r.question) = 1

\* handleUpdate, the zone section names the apex and nothing else
zoneSectionOK(r) ==
    Len(r.question) = 1 /\ EqualName(r.question[1].name, Zone)

Call(op, value) == [op |-> op, value |-> value]

\* updateEntry as it would be if class NONE deleted only the RR whose rdata
\* is the stored value (RFC 2136, 3.4.2.4)
updateEntryMatchRdata(rr, s, t) ==
    IF ~EqualName(rr.name, challengeName)
    THEN [store |-> s, calls |-> <<>>, rcode |-> "REFUSED"]
    ELSE
    CASE rr.class = "IN" ->
            IF rr.type # "TXT" THEN [store |-> s, calls |-> <<>>, rcode |-> "REFUSED"]
            ELSE IF Len(rr.txt) = 0 THEN [store |-> s, calls |-> <<>>, rcode |-> "FORMERR"]
            ELSE [store |-> Set(s, Join(rr.txt), t),
                  calls |-> <<Call("Set", Join(rr.txt))>>, rcode |-> ""]
      [] rr.class = "NONE" ->
            IF rr.type # "TXT" THEN [store |-> s, calls |-> <<>>, rcode |-> "REFUSED"]
            ELSE IF Join(rr.txt) # s.value THEN [store |-> s, calls |-> <<>>, rcode |-> ""]
            ELSE [store |-> Delete(s), calls |-> <<Call("Delete", "")>>, rcode |-> ""]
      [] rr.class = "ANY" ->
            IF rr.type = "ANY" \/ rr.type = "TXT"
            THEN [store |-> Delete(s), calls |-> <<Call("Delete", "")>>, rcode |-> ""]
            ELSE [store |-> s, calls |-> <<>>, rcode |-> "REFUSED"]
      [] OTHER -> [store |-> s, calls |-> <<>>, rcode |-> "REFUSED"]

\* updateEntry as it would be without the check of the entry's name and with
\* every class other than NONE and ANY taken as an add
updateEntryNoChecks(rr, s, t) ==
    CASE rr.class = "NONE" ->
            IF rr.type # "TXT" THEN [store |-> s, calls |-> <<>>, rcode |-> "REFUSED"]
            ELSE [store |-> Delete(s), calls |-> <<Call("Delete", "")>>, rcode |-> ""]
      [] rr.class = "ANY" ->
            IF rr.type = "ANY" \/ rr.type = "TXT"
            THEN [store |-> Delete(s), calls |-> <<Call("Delete", "")>>, rcode |-> ""]
            ELSE [store |-> s, calls |-> <<>>, rcode |-> "REFUSED"]
      [] OTHER ->
            IF rr.type # "TXT" THEN [store |-> s, calls |-> <<>>, rcode |-> "REFUSED"]
            ELSE IF Len(rr.txt) = 0 THEN [store |-> s, calls |-> <<>>, rcode |-> "FORMERR"]
            ELSE [store |-> Set(s, Join(rr.txt), t),
                  calls |-> <<Call("Set", Join(rr.txt))>>, rcode |-> ""]

\* One pass of the loop body on entry rr: the store afterwards, the Store
\* calls made, and the rcode the handler returns with ("" to go on)
updateEntry(rr, s, t) ==
    IF ~EqualName(rr.name, challengeName)
    THEN [store |-> s, calls |-> <<>>, rcode |-> "REFUSED"]
    ELSE
    CASE rr.class = "IN" ->
            IF rr.type # "TXT" THEN [store |-> s, calls |-> <<>>, rcode |-> "REFUSED"]
            ELSE IF Len(rr.txt) = 0 THEN [store |-> s, calls |-> <<>>, rcode |-> "FORMERR"]
            ELSE [store |-> Set(s, Join(rr.txt), t), calls |-> <<Call("Set", Join(rr.txt))>>, rcode |-> ""]
      [] rr.class = "NONE" ->
            IF rr.type # "TXT" THEN [store |-> s, calls |-> <<>>, rcode |-> "REFUSED"]
            ELSE [store |-> Delete(s), calls |-> <<Call("Delete", "")>>, rcode |-> ""]
      [] rr.class = "ANY" ->
            IF rr.type = "ANY" \/ rr.type = "TXT"
            THEN [store |-> Delete(s), calls |-> <<Call("Delete", "")>>, rcode |-> ""]
            ELSE [store |-> s, calls |-> <<>>, rcode |-> "REFUSED"]
      [] OTHER -> [store |-> s, calls |-> <<>>, rcode |-> "REFUSED"]

----------------------------------------------------------------------------
(* The messages the model sends *)

ChallengeMixedCase == <<"_ACME-Challenge", "example", "com">>

ZoneUpper == <<"EXAMPLE", "COM">>

OtherKey == <<"other-key">>

RR(name, class, type, txt) == [name |-> name, class |-> class, type |-> type, txt |-> txt]

UpdateEntries ==
    { RR(challengeName, "IN", "TXT", <<"a">>),
      RR(ChallengeMixedCase, "IN", "TXT", <<"b", "a">>),
      RR(challengeName, "IN", "TXT", <<>>),
      RR(challengeName, "IN", "A", <<>>),
      RR(challengeName, "NONE", "TXT", <<"b">>),
      RR(challengeName, "NONE", "A", <<>>),
      RR(challengeName, "ANY", "ANY", <<>>),
      RR(challengeName, "ANY", "TXT", <<>>),
      RR(challengeName, "ANY", "A", <<>>),
      RR(challengeName, "CH", "TXT", <<"a">>),
      RR(<<"www">> \o Zone, "IN", "TXT", <<"a">>) }

SeqsUpTo(S, n) == UNION { [1..k -> S] : k \in 0..n }

UpdateSections == SeqsUpTo(UpdateEntries, MaxEntries)

Q(name, type) == [name |-> name, type |-> type]

ZoneSections ==
    { <<>>, <<Q(Zone, "SOA")>>, <<Q(<<"www">> \o Zone, "SOA")>>,
      <<Q(Zone, "SOA"), Q(Zone, "SOA")>> }

TSIGs ==
    {NoTSIG} \cup [present : {TRUE}, name : {TsigName, OtherKey}, macOK : BOOLEAN]

Unparsable ==
    [opcode |-> "UPDATE", parsable |-> FALSE, tsig |-> NoTSIG,
     question |-> <<Q(Zone, "SOA")>>, ns |-> <<>>]

UpdateMessages ==
    {Unparsable} \cup
    [opcode : {"UPDATE"}, parsable : {TRUE}, tsig : TSIGs,
     question : ZoneSections, ns : UpdateSections]

QueryNames ==
    { Zone, ZoneUpper, challengeName, ChallengeMixedCase,
      <<"www">> \o Zone, <<"x">> \o challengeName, <<"other", "com">>, <<"com">> }

QueryTypes == {"TXT", "ANY", "SOA", "NS", "A"}

QueryMessages ==
    [opcode : {"QUERY"}, parsable : {TRUE}, tsig : TSIGs,
     question : {<<>>} \cup { <<Q(n, ty)>> : n \in QueryNames, ty \in QueryTypes },
     ns : {<<>>}]

\* messages whose opcode and content do not go together: the content of an
\* authenticated update under another opcode, and a query under UPDATE
MixedMessages ==
    [opcode : {"QUERY", "NOTIFY"}, parsable : {TRUE},
     tsig : {[present |-> TRUE, name |-> TsigName, macOK |-> TRUE]},
     question : {<<Q(Zone, "SOA")>>},
     ns : {<<RR(challengeName, "IN", "TXT", <<"a">>)>>,
           <<RR(challengeName, "ANY", "ANY", <<>>)>>}]
    \cup
    [opcode : {"NOTIFY"}, parsable : {TRUE}, tsig : {NoTSIG},
     question : {<<>>, <<Q(challengeName, "TXT")>>}, ns : {<<>>}]
    \cup
    [opcode : {"UPDATE"}, parsable : {TRUE},
     tsig : {NoTSIG, [present |-> TRUE, name |-> TsigName, macOK |-> TRUE]},
     question : {<<Q(challengeName, "TXT")>>}, ns : {<<>>}]

Messages == UpdateMessages \cup QueryMessages \cup MixedMessages

Values == {"", "a", "b"}

NoMsg ==
    [opcode |-> "", parsable |-> FALSE, tsig |-> NoTSIG, question |-> <<>>, ns |-> <<>>]

NoResp == [rcode |-> "", aa |-> FALSE, answer |-> <<>>, ns |-> <<>>, pseudo |-> <<>>]

NoGot == <<"", FALSE>>

----------------------------------------------------------------------------
(* The server: one handler per message, and the clock *)

Idle == [op |-> "", msg |-> NoMsg, value |-> ""]

NoWrite == [op |-> "", value |-> "", at |-> 0]

\* no exchange of the sequence has taken place
NoCycle == [step |-> 0, txt |-> <<>>, at |-> <<>>, resps |-> <<>>]

\* the handler goroutines
Handlers == 1..NumHandlers

\* a goroutine that has not been handed a message
NoHandler ==
    [pc |-> "idle", msg |-> NoMsg, i |-> 0, snap |-> EmptyStore, seen |-> EmptyStore,
     at |-> 0, rcode |-> "", out |-> <<>>]

\* sync.RWMutex, zero value.  w: the mutex taken by Lock() is held;
\* announced: a Lock() has told the readers a writer is there; readers: the
\* RLock() calls not yet matched by RUnlock(); wait: the readers the writer
\* waits for; rsem: the wake-ups handed to the readers that wait
Unlocked == [w |-> FALSE, announced |-> FALSE, readers |-> 0, wait |-> 0, rsem |-> 0]

Init ==
    /\ store = EmptyStore
    /\ now = 0
    /\ req = Idle
    /\ resp = NoResp
    /\ pre = EmptyStore
    /\ got = NoGot
    /\ lastWrite = NoWrite
    /\ cycle = NoCycle
    /\ handlers = [p \in Handlers |-> NoHandler]
    /\ mu = Unlocked
    /\ lin = EmptyStore

\* handleQuery reaches s.Store.Get(): the question names the challenge record
\* and asks for TXT or ANY
CallsGet(r) ==
    /\ Len(r.question) > 0
    /\ EqualName(ToLower(r.question[1].name), challengeName)
    /\ r.question[1].type = "TXT" \/ r.question[1].type = "ANY"

RECURSIVE updateLoopContinue(_)

\* updateLoop as it would be if a rejected entry set the rcode and the loop
\* went on to the next entry
updateLoopContinue(h) ==
    IF h.i > Len(h.msg.ns)
    THEN [h EXCEPT !.pc = "write", !.rcode = IF @ = "" THEN "NOERROR" ELSE @]
    ELSE LET e == updateEntry(h.msg.ns[h.i], EmptyStore, now) IN
         IF e.rcode # "" THEN updateLoopContinue([h EXCEPT !.i = @ + 1, !.rcode = e.rcode])
         ELSE [h EXCEPT !.pc = "lock"]

\* handleUpdate: the head of the loop and the checks of entry h.i, up to the
\* call of Set or Delete or to the response
updateLoop(h) ==
    IF h.i > Len(h.msg.ns) THEN [h EXCEPT !.pc = "write", !.rcode = "NOERROR"]
    ELSE LET e == updateEntry(h.msg.ns[h.i], EmptyStore, now) IN
         IF e.rcode # "" THEN [h EXCEPT !.pc = "write", !.rcode = e.rcode]
         ELSE [h EXCEPT !.pc = "lock"]

\* handleUpdate as it would be with the zone section checked before the TSIG
handleUpdateZoneFirst(h) ==
    LET a == authenticate(h.msg) IN
    IF ~h.msg.parsable THEN [h EXCEPT !.pc = "write", !.rcode = "FORMERR"]
    ELSE IF ~zoneSectionOK(h.msg) THEN [h EXCEPT !.pc = "write", !.rcode = "REFUSED"]
    ELSE IF a # "" THEN [h EXCEPT !.pc = "write", !.rcode = a]
    ELSE updateLoop([h EXCEPT !.i = 1])

\* handleUpdate up to its first call of the Store, or to the response when a
\* check fails before
handleUpdate(h) ==
    LET a == authenticate(h.msg) IN
    IF a # "" THEN [h EXCEPT !.pc = "write", !.rcode = a]
    ELSE IF ~zoneSectionOK(h.msg) THEN [h EXCEPT !.pc = "write", !.rcode = "REFUSED"]
    ELSE updateLoop([h EXCEPT !.i = 1])

\* ServeDNS as it would be if every message but a plain query went to the
\* update processor
DispatchNotQuery(h) ==
    IF h.msg.opcode # "QUERY" THEN handleUpdate(h)
    ELSE IF CallsGet(h.msg) THEN [h EXCEPT !.pc = "rlock"]
         ELSE [h EXCEPT !.pc = "write"]

\* ServeDNS, and the handler up to its first call of the Store
Dispatch(h) ==
    IF h.msg.opcode = "UPDATE" THEN handleUpdate(h)
    ELSE IF CallsGet(h.msg) THEN [h EXCEPT !.pc = "rlock"]
         ELSE [h EXCEPT !.pc = "write"]

\* the message the handler of goroutine h writes: handleUpdate has set the
\* rcode, handleQuery answers from what Get returned at the instant h.at
Reply(h) ==
    IF h.rcode # ""
    THEN writeMsg([SetReply(h.msg) EXCEPT !.rcode = h.rcode])
    ELSE handleQuery(h.msg, h.snap, h.at)

\* The server reads message r and runs ServeDNS on it in goroutine 1: the
\* handler runs up to its first call of the Store or, when it makes none, to
\* the response.  The client sends one message at a time and waits for the
\* response
ServeDNS(r) ==
    LET h == Dispatch([NoHandler EXCEPT !.msg = r, !.at = now]) IN
    /\ pre' = store
    /\ got' = NoGot
    /\ IF h.pc = "write"
       THEN /\ req' = [op |-> "ServeDNS", msg |-> r, value |-> ""]
            /\ resp' = Reply(h)
            /\ handlers' = [handlers EXCEPT
                               ![1] = [h EXCEPT !.pc = "done", !.out = <<Reply(h)>>]]
       ELSE /\ req' = [op |-> "handling", msg |-> r, value |-> ""]
            /\ resp' = NoResp
            /\ handlers' = [handlers EXCEPT ![1] = h]
    /\ UNCHANGED <<store, now, lastWrite>>

\* handleUpdate calls s.Store.Set or s.Store.Delete for entry h.i; the call
\* takes the lock, which no other goroutine asks for, writes the fields at
\* the instant now and releases the lock; the loop runs up to the next call
\* or to the response
UpdateStore ==
    LET h == handlers[1]
        e == updateEntry(h.msg.ns[h.i], store, now)
    IN
    /\ req.op = "handling"
    /\ h.pc = "lock"
    /\ store' = e.store
    /\ lastWrite' = IF e.calls = <<>> THEN lastWrite
                    ELSE [op |-> e.calls[1].op, value |-> e.calls[1].value, at |-> now]
    /\ handlers' = [handlers EXCEPT ![1] = updateLoop([h EXCEPT !.i = @ + 1, !.at = now])]
    /\ UNCHANGED <<now, req, resp, pre, got, cycle, mu, lin>>

\* handleQuery calls s.Store.Get; the call takes the read lock, reads the
\* fields at the instant now, releases the lock and returns
QueryStore ==
    LET h == handlers[1] IN
    /\ req.op = "handling"
    /\ h.pc = "rlock"
    /\ got' = Get(store, now)
    /\ store' = GetLeaves(store, now)
    /\ handlers' = [handlers EXCEPT
                       ![1] = [h EXCEPT !.pc = "write", !.snap = store, !.at = now]]
    /\ UNCHANGED <<now, req, resp, pre, lastWrite, cycle, mu, lin>>

\* writeMsg: the handler writes its response, after its last call of the
\* Store has returned
Answer ==
    LET h == handlers[1] IN
    /\ req.op = "handling"
    /\ h.pc = "write"
    /\ resp' = Reply(h)
    /\ req' = [req EXCEPT !.op = "ServeDNS"]
    /\ handlers' = [handlers EXCEPT ![1] = [h EXCEPT !.pc = "done", !.out = <<Reply(h)>>]]
    /\ UNCHANGED <<store, now, pre, got, lastWrite, mu, lin>>

WriteResponse == Answer /\ UNCHANGED cycle

\* The client takes the response; the exchange is over and the goroutine ends
Deliver ==
    /\ req.op = "ServeDNS"
    /\ req' = Idle
    /\ resp' = NoResp
    /\ pre' = store
    /\ got' = NoGot
    /\ handlers' = [handlers EXCEPT ![1] = NoHandler]
    /\ UNCHANGED <<store, now, lastWrite, cycle, mu, lin>>

\* Time passes, whatever the handlers are doing.  A response or a result that
\* was there is taken before
Tick ==
    /\ now + TickStep <= MaxTime
    /\ now' = now + TickStep
    /\ IF req.op \in {"", "handling"}
       THEN UNCHANGED <<req, resp, pre, got, handlers>>
       ELSE /\ req' = Idle
            /\ resp' = NoResp
            /\ pre' = store
            /\ got' = NoGot
            /\ handlers' = [handlers EXCEPT ![1] = NoHandler]
    /\ UNCHANGED <<store, lastWrite, cycle, mu, lin>>

Exchange ==
    /\ req = Idle
    /\ \E r \in Messages : ServeDNS(r)
    /\ UNCHANGED <<cycle, mu, lin>>

Next ==
    \/ Exchange
    \/ UpdateStore
    \/ QueryStore
    \/ WriteResponse
    \/ Deliver
    \/ Tick

Spec == Init /\ [][Next]_vars

----------------------------------------------------------------------------
(* One client going through an ACME challenge: it adds the value, has it     *)
(* queried, deletes it and has it queried again, each message sent after the *)
(* response to the one before                                                *)

\* the TSIG of a message signed with the configured key
GoodTSIG == [present |-> TRUE, name |-> TsigName, macOK |-> TRUE]

\* an authenticated update with the one entry rr
AuthUpdate(rr) ==
    [opcode |-> "UPDATE", parsable |-> TRUE, tsig |-> GoodTSIG,
     question |-> <<Q(Zone, "SOA")>>, ns |-> <<rr>>]

AddMessages ==
    { AuthUpdate(rr) : rr \in { e \in UpdateEntries :
          EqualName(e.name, challengeName) /\ e.class = "IN" /\ e.type = "TXT" /\ Len(e.txt) > 0 } }

DeleteMessages ==
    { AuthUpdate(rr) : rr \in { e \in UpdateEntries :
          /\ EqualName(e.name, challengeName)
          /\ \/ e.class = "NONE" /\ e.type = "TXT"
             \/ e.class = "ANY" /\ e.type \in {"TXT", "ANY"} } }

ChallengeQueries ==
    { m \in QueryMessages :
          /\ Len(m.question) = 1
          /\ EqualName(ToLower(m.question[1].name), challengeName)
          /\ m.question[1].type = "TXT" }

CycleAdd ==
    /\ cycle.step = 0
    /\ req = Idle
    /\ \E r \in AddMessages :
          /\ ServeDNS(r)
          /\ cycle' = [cycle EXCEPT !.step = 1, !.txt = r.ns[1].txt]
    /\ UNCHANGED <<mu, lin>>

CycleQuery ==
    /\ cycle.step \in {1, 3}
    /\ req = Idle
    /\ \E r \in ChallengeQueries : ServeDNS(r)
    /\ cycle' = [cycle EXCEPT !.step = @ + 1]
    /\ UNCHANGED <<mu, lin>>

CycleDelete ==
    /\ cycle.step = 2
    /\ req = Idle
    /\ \E r \in DeleteMessages : ServeDNS(r)
    /\ cycle' = [cycle EXCEPT !.step = 3]
    /\ UNCHANGED <<mu, lin>>

\* the client reads the response, and the instant of the handler's Store call
\* is noted
CycleResponse ==
    /\ Answer
    /\ cycle' = [cycle EXCEPT !.at = Append(@, handlers[1].at),
                              !.resps = Append(@, resp')]

\* the client starts over with the next challenge
CycleAgain ==
    /\ cycle.step = 4
    /\ req = Idle
    /\ cycle' = NoCycle
    /\ UNCHANGED <<store, now, req, resp, pre, got, lastWrite, handlers, mu, lin>>

NextCycle ==
    \/ CycleAdd
    \/ CycleQuery
    \/ CycleDelete
    \/ CycleAgain
    \/ UpdateStore
    \/ QueryStore
    \/ CycleResponse
    \/ Deliver
    \/ Tick

SpecCycle == Init /\ [][NextCycle]_vars

----------------------------------------------------------------------------
(* The Store driven directly, as store_test.go drives it *)

CallSet(v) ==
    /\ store' = Set(store, v, now)
    /\ lastWrite' = [op |-> "Set", value |-> v, at |-> now]
    /\ req' = [op |-> "Set", msg |-> NoMsg, value |-> v]
    /\ pre' = store
    /\ got' = NoGot
    /\ UNCHANGED <<now, resp, cycle, handlers, mu, lin>>

CallDelete ==
    /\ store' = Delete(store)
    /\ lastWrite' = [op |-> "Delete", value |-> "", at |-> now]
    /\ req' = [op |-> "Delete", msg |-> NoMsg, value |-> ""]
    /\ pre' = store
    /\ got' = NoGot
    /\ UNCHANGED <<now, resp, cycle, handlers, mu, lin>>

CallGet ==
    /\ got' = Get(store, now)
    /\ store' = GetLeaves(store, now)
    /\ req' = [op |-> "Get", msg |-> NoMsg, value |-> ""]
    /\ pre' = store
    /\ UNCHANGED <<now, resp, lastWrite, cycle, handlers, mu, lin>>

NextStore ==
    \/ \E v \in Values : CallSet(v)
    \/ CallDelete
    \/ CallGet
    \/ Tick

SpecStore == Init /\ [][NextStore]_vars

----------------------------------------------------------------------------
(* Handlers running concurrently: the server calls ServeDNS in a goroutine   *)
(* of its own for every message, and the goroutines share the Store.  All    *)
(* of it happens within one minute of the clock: the lock does not read it   *)

\* Lock() as it would be if it did not wait for the readers to leave
LockFreeIgnoreReaders(m) == TRUE

\* RWMutex.Lock returns: the readers that were there have left
LockFree(m) == m.wait = 0

\* RWMutex.RLock: the reader is counted
RLockCount(m) == [m EXCEPT !.readers = @ + 1]

\* RWMutex.Lock: the writer takes the mutex of the writers, announces itself
\* and waits for the readers that are there
LockAnnounce(m) == [m EXCEPT !.w = TRUE, !.announced = TRUE, !.wait = m.readers]

\* RUnlock as it would be if Get returned without releasing the lock
RUnlockKeep(m) == m

\* the deferred RUnlock of Get: the reader leaves, and a writer that waits
\* for it is told
RUnlock(m) ==
    [m EXCEPT !.readers = @ - 1,
              !.wait = IF m.announced /\ @ > 0 THEN @ - 1 ELSE @]

\* the deferred Unlock of Set and Delete: the readers that wait are woken,
\* then the next writer may come
Unlock(m) == [m EXCEPT !.w = FALSE, !.announced = FALSE, !.rsem = @ + m.readers]

\* the messages handled concurrently
ConcMessages ==
    { [opcode |-> "QUERY", parsable |-> TRUE, tsig |-> NoTSIG,
       question |-> <<Q(ChallengeMixedCase, "TXT")>>, ns |-> <<>>],
      [opcode |-> "QUERY", parsable |-> TRUE, tsig |-> NoTSIG,
       question |-> <<Q(challengeName, "A")>>, ns |-> <<>>],
      [opcode |-> "UPDATE", parsable |-> TRUE, tsig |-> NoTSIG,
       question |-> <<Q(Zone, "SOA")>>, ns |-> <<RR(challengeName, "IN", "TXT", <<"a">>)>>],
      [opcode |-> "UPDATE", parsable |-> TRUE, tsig |-> GoodTSIG,
       question |-> <<Q(Zone, "SOA")>>,
       ns |-> <<RR(challengeName, "ANY", "ANY", <<>>),
                RR(ChallengeMixedCase, "IN", "TXT", <<"b", "a">>)>>],
      [opcode |-> "UPDATE", parsable |-> TRUE, tsig |-> GoodTSIG,
       question |-> <<Q(Zone, "SOA")>>,
       ns |-> <<RR(challengeName, "IN", "TXT", <<"a">>),
                RR(challengeName, "CH", "TXT", <<"a">>)>>] }

\* goroutine p goes from its place to the place pc, its other fields as in h
Goto(p, pc, h) == handlers' = [handlers EXCEPT ![p] = [h EXCEPT !.pc = pc]]

\* the variables that record the exchanges of a single client
aside == <<now, req, resp, pre, got, lastWrite, cycle, lin>>

\* the server hands message r to goroutine p, which runs ServeDNS
Recv(p, r) ==
    /\ handlers[p].pc = "idle"
    /\ handlers' = [handlers EXCEPT ![p] = Dispatch([NoHandler EXCEPT !.msg = r])]
    /\ UNCHANGED <<store, mu, aside>>

\* Store.Get: s.mu.RLock(); the reader waits when a writer has announced
\* itself
RLock(p) ==
    /\ handlers[p].pc = "rlock"
    /\ mu' = RLockCount(mu)
    /\ Goto(p, IF mu.announced THEN "rwait" ELSE "rcs", handlers[p])
    /\ UNCHANGED <<store, aside>>

\* Store.Get: s.mu.RLock() returns to a reader that waited
RLocked(p) ==
    /\ handlers[p].pc = "rwait"
    /\ mu.rsem > 0
    /\ mu' = [mu EXCEPT !.rsem = @ - 1]
    /\ Goto(p, "rcs", handlers[p])
    /\ UNCHANGED <<store, aside>>

\* Store.Get reads the fields and returns: the deferred s.mu.RUnlock()
GetReturn(p) ==
    /\ handlers[p].pc = "rcs"
    /\ mu' = RUnlock(mu)
    /\ Goto(p, "write", [handlers[p] EXCEPT !.snap = store, !.at = now])
    /\ UNCHANGED <<store, aside>>

\* Lock as it would be if a second writer did not wait for the first
LockNoMutex(p) ==
    /\ handlers[p].pc = "lock"
    /\ mu' = LockAnnounce(mu)
    /\ Goto(p, "lockwait", handlers[p])
    /\ UNCHANGED <<store, aside>>

\* Store.Set, Store.Delete: s.mu.Lock() is called; one writer at a time gets
\* this far
Lock(p) ==
    /\ handlers[p].pc = "lock"
    /\ ~mu.w
    /\ mu' = LockAnnounce(mu)
    /\ Goto(p, "lockwait", handlers[p])
    /\ UNCHANGED <<store, aside>>

\* Store.Set, Store.Delete: s.mu.Lock() returns
Locked(p) ==
    /\ handlers[p].pc = "lockwait"
    /\ LockFree(mu)
    /\ Goto(p, "wcs", handlers[p])
    /\ UNCHANGED <<store, mu, aside>>

\* Store.Set, Store.Delete write the fields and return: the deferred
\* s.mu.Unlock(); the loop goes on with the next entry
SetReturn(p) ==
    LET h == handlers[p] IN
    /\ h.pc = "wcs"
    /\ store' = updateEntry(h.msg.ns[h.i], store, now).store
    /\ mu' = Unlock(mu)
    /\ handlers' = [handlers EXCEPT ![p] = updateLoop([h EXCEPT !.i = @ + 1])]
    /\ UNCHANGED aside

\* writeMsg: the response goes out
Respond(p) ==
    LET h == handlers[p] IN
    /\ h.pc = "write"
    /\ Goto(p, "done", [h EXCEPT !.out = Append(@, Reply(h)), !.snap = EmptyStore])
    /\ UNCHANGED <<store, mu, aside>>

\* the handler has returned and the goroutine ends
Return(p) ==
    /\ handlers[p].pc = "done"
    /\ handlers' = [handlers EXCEPT ![p] = NoHandler]
    /\ UNCHANGED <<store, mu, aside>>

\* a step of the handler run by goroutine p
HandlerStep(p) ==
    \/ RLock(p)
    \/ RLocked(p)
    \/ GetReturn(p)
    \/ Lock(p)
    \/ Locked(p)
    \/ SetReturn(p)
    \/ Respond(p)
    \/ Return(p)

NextConc ==
    \/ \E p \in Handlers, r \in ConcMessages : Recv(p, r)
    \/ \E p \in Handlers : RLock(p)
    \/ \E p \in Handlers : RLocked(p)
    \/ \E p \in Handlers : GetReturn(p)
    \/ \E p \in Handlers : Lock(p)
    \/ \E p \in Handlers : Locked(p)
    \/ \E p \in Handlers : SetReturn(p)
    \/ \E p \in Handlers : Respond(p)
    \/ \E p \in Handlers : Return(p)

SpecConc == Init /\ [][NextConc]_vars

\* the scheduler runs every goroutine that can take a step, and the mutex of
\* the writers is granted to every writer that keeps asking for it
Fairness ==
    \A p \in Handlers : SF_vars(HandlerStep(p))

SpecConcFair == SpecConc /\ Fairness

----------------------------------------------------------------------------
(* The same goroutines with Get, Set and Delete taken one field at a time,   *)
(* as the processor runs them, and with the clock running between any two   *)
(* steps: what the lock protects is visible here                             *)

\* the variables the goroutines leave alone
client == <<now, req, resp, pre, got, lastWrite, cycle>>

\* Get returns: the deferred s.mu.RUnlock(); h is the goroutine with what it
\* has read
Returned(p, h) ==
    /\ mu' = RUnlock(mu)
    /\ Goto(p, "write", h)

\* Store.Get: if !s.set
ReadSet(p) ==
    LET h == [handlers[p] EXCEPT !.seen = lin, !.snap.set = store.set] IN
    /\ handlers[p].pc = "rcs"
    /\ IF ~store.set THEN Returned(p, h)
       ELSE Goto(p, "rcs2", h) /\ UNCHANGED mu
    /\ UNCHANGED <<store, lin, client>>

\* Store.Get: if time.Now().After(s.expiry)
ReadExpiry(p) ==
    LET h == [handlers[p] EXCEPT !.snap.expiry = store.expiry, !.at = now] IN
    /\ handlers[p].pc = "rcs2"
    /\ IF now > store.expiry THEN Returned(p, h)
       ELSE Goto(p, "rcs3", h) /\ UNCHANGED mu
    /\ UNCHANGED <<store, lin, client>>

\* Store.Get: return s.value, true
ReadValue(p) ==
    /\ handlers[p].pc = "rcs3"
    /\ Returned(p, [handlers[p] EXCEPT !.snap.value = store.value])
    /\ UNCHANGED <<store, lin, client>>

\* the fields Set or Delete is to write for entry h.i of the message of h
Written(h) == updateEntry(h.msg.ns[h.i], store, now).store

\* Store.Set: s.value = value; Store.Delete: s.value = ""
WriteValue(p) ==
    LET h == handlers[p] IN
    /\ h.pc = "wcs"
    /\ store' = [store EXCEPT !.value = Written(h).value]
    /\ Goto(p, IF h.msg.ns[h.i].class = "IN" THEN "wcs2" ELSE "wcs3", h)
    /\ UNCHANGED <<mu, lin, client>>

\* Store.Set: s.expiry = time.Now().Add(recordTTL)
WriteExpiry(p) ==
    LET h == handlers[p] IN
    /\ h.pc = "wcs2"
    /\ store' = [store EXCEPT !.expiry = now + recordTTL]
    /\ Goto(p, "wcs3", [h EXCEPT !.at = now])
    /\ UNCHANGED <<mu, lin, client>>

\* Store.Set: s.set = true; Store.Delete: s.set = false; then the deferred
\* s.mu.Unlock(), and the loop goes on with the next entry.  The call takes
\* effect here, a Set with the expiry of the instant h.at it took
WriteSet(p) ==
    LET h == handlers[p] IN
    /\ h.pc = "wcs3"
    /\ store' = [store EXCEPT !.set = (h.msg.ns[h.i].class = "IN")]
    /\ lin' = updateEntry(h.msg.ns[h.i], lin, h.at).store
    /\ mu' = Unlock(mu)
    /\ handlers' = [handlers EXCEPT ![p] = updateLoop([h EXCEPT !.i = @ + 1, !.at = 0])]
    /\ UNCHANGED client

NextFine ==
    \/ \E p \in Handlers, r \in ConcMessages : Recv(p, r)
    \/ \E p \in Handlers : RLock(p)
    \/ \E p \in Handlers : RLocked(p)
    \/ \E p \in Handlers : ReadSet(p)
    \/ \E p \in Handlers : ReadExpiry(p)
    \/ \E p \in Handlers : ReadValue(p)
    \/ \E p \in Handlers : Lock(p)
    \/ \E p \in Handlers : Locked(p)
    \/ \E p \in Handlers : WriteValue(p)
    \/ \E p \in Handlers : WriteExpiry(p)
    \/ \E p \in Handlers : WriteSet(p)
    \/ \E p \in Handlers : Respond(p)
    \/ \E p \in Handlers : Return(p)
    \/ Tick

SpecFine == Init /\ [][NextFine]_vars

----------------------------------------------------------------------------
(* Vocabulary of the properties *)

\* the last step was the handling of an update message
IsUpdate == req.op = "ServeDNS" /\ req.msg.opcode = "UPDATE"

\* the last step was the handling of a query message
IsQuery == req.op = "ServeDNS" /\ req.msg.opcode = "QUERY"

\* the message carries a TSIG record with the configured key name and a MAC
\* that verifies
ValidTSIG(m) ==
    /\ m.parsable
    /\ m.tsig.present
    /\ ToLower(m.tsig.name) = ToLower(TsigName)
    /\ m.tsig.macOK

\* the zone section has exactly one entry and it names the apex
NamesApex(m) == Len(m.question) = 1 /\ ToLower(m.question[1].name) = ToLower(Zone)

AtChallenge(rr) == ToLower(rr.name) = ToLower(challengeName)

\* the last step handled an update that passed steps 1-5
IsAuthUpdate == IsUpdate /\ ValidTSIG(req.msg) /\ NamesApex(req.msg)

\* the instant of the last Store call of the handler of the last message, or
\* of its start when it called none
At == handlers[1].at

\* a value was stored by the most recent write and its TTL has not run out at
\* instant t
Unexpired(t) == lastWrite.op = "Set" /\ t <= lastWrite.at + recordTTL

\* a value was stored by the most recent write and its TTL has not run out
Fresh == Unexpired(now)

\* the value and the presence flag of a store
Content(s) == [value |-> s.value, set |-> s.set]

----------------------------------------------------------------------------
(* C1: an update with no TSIG record is answered REFUSED, one with a wrong   *)
(* key name or a MAC that does not verify is answered NOTAUTH, and in all    *)
(* three cases the store is what it was before the message.                  *)
C1_UnauthenticatedRejected ==
    (IsUpdate /\ req.msg.parsable) =>
        /\ ~req.msg.tsig.present => (resp.rcode = "REFUSED" /\ store = pre)
        /\ (req.msg.tsig.present /\ ToLower(req.msg.tsig.name) # ToLower(TsigName))
              => (resp.rcode = "NOTAUTH" /\ store = pre)
        /\ (req.msg.tsig.present /\ ~req.msg.tsig.macOK)
              => (resp.rcode = "NOTAUTH" /\ store = pre)

\* a bad MAC under the right key name, on an update that would overwrite a
\* stored value
C1_Witness ==
    /\ IsUpdate /\ req.msg.parsable
    /\ req.msg.tsig.present /\ req.msg.tsig.name = TsigName /\ ~req.msg.tsig.macOK
    /\ NamesApex(req.msg)
    /\ Len(req.msg.ns) = 1 /\ req.msg.ns[1].class = "IN" /\ req.msg.ns[1].txt = <<"a">>
    /\ pre.set /\ pre.value = "ba"
    /\ resp.rcode = "NOTAUTH"

(* C2: an authenticated update for the apex with the single entry            *)
(* (challenge name, IN, TXT, rdata v) is answered NOERROR, and Get() then    *)
(* returns (v, true) as long as no other update comes and the TTL lasts.     *)
C2_AddThenGet ==
    /\ (/\ IsAuthUpdate
        /\ Len(req.msg.ns) = 1
        /\ AtChallenge(req.msg.ns[1])
        /\ req.msg.ns[1].class = "IN" /\ req.msg.ns[1].type = "TXT"
        /\ Len(req.msg.ns[1].txt) > 0)
       => /\ resp.rcode = "NOERROR"
          /\ lastWrite = [op |-> "Set", value |-> Join(req.msg.ns[1].txt), at |-> At]
    /\ Fresh => Get(store, now) = <<lastWrite.value, TRUE>>

\* the add has been answered, time has passed within the TTL, and the value
\* is still returned
C2_Witness ==
    /\ lastWrite.op = "Set" /\ lastWrite.value = "ba"
    /\ now = lastWrite.at + recordTTL
    /\ Get(store, now) = <<"ba", TRUE>>

(* C3: an authenticated update whose single entry names the challenge name   *)
(* with class NONE and type TXT, or class ANY and type TXT or ANY, is        *)
(* answered NOERROR and Get() then returns ("", false), whatever was stored  *)
(* and whatever the rdata of the entry.                                      *)
C3_DeleteThenGet ==
    (/\ IsAuthUpdate
     /\ Len(req.msg.ns) = 1
     /\ AtChallenge(req.msg.ns[1])
     /\ \/ req.msg.ns[1].class = "NONE" /\ req.msg.ns[1].type = "TXT"
        \/ req.msg.ns[1].class = "ANY" /\ req.msg.ns[1].type \in {"TXT", "ANY"})
    => /\ resp.rcode = "NOERROR"
       /\ Get(store, now) = <<"", FALSE>>

\* class NONE with rdata "b" deletes the stored, unexpired value "a"
C3_Witness ==
    /\ IsAuthUpdate
    /\ Len(req.msg.ns) = 1 /\ req.msg.ns[1].class = "NONE" /\ req.msg.ns[1].txt = <<"b">>
    /\ Get(pre, At) = <<"a", TRUE>>
    /\ resp.rcode = "NOERROR"
    /\ Get(store, now) = <<"", FALSE>>

\* the entry is one the update processor does not accept
Invalid(rr) ==
    \/ ~AtChallenge(rr)
    \/ rr.class \in {"IN", "NONE"} /\ rr.type # "TXT"
    \/ rr.class = "ANY" /\ rr.type \notin {"TXT", "ANY"}
    \/ rr.class \notin {"IN", "NONE", "ANY"}

(* C4: an authenticated update whose first entry is invalid (wrong name,     *)
(* non-TXT type for class IN or NONE, type other than TXT or ANY for class   *)
(* ANY, or another class) is answered REFUSED and leaves the store unchanged.*)
C4_InvalidFirstEntry ==
    (IsAuthUpdate /\ Len(req.msg.ns) >= 1 /\ Invalid(req.msg.ns[1]))
    => (resp.rcode = "REFUSED" /\ store = pre)

\* an entry of class CH, followed by an add, against a stored value
C4_Witness ==
    /\ IsAuthUpdate
    /\ Len(req.msg.ns) = 2
    /\ req.msg.ns[1].class = "CH"
    /\ req.msg.ns[2].class = "IN" /\ req.msg.ns[2].txt = <<"a">>
    /\ pre.set /\ pre.value = "ba"
    /\ resp.rcode = "REFUSED"

\* the response carries a TSIG record
Signed(m) == \E i \in 1..Len(m.pseudo) : m.pseudo[i].type = "TSIG"

(* C5: every update response produced at or after the zone-section check is  *)
(* TSIG-signed, and every update response produced by a failure of steps     *)
(* 1-4 is sent unsigned.                                                     *)
C5_ResponsesSigned ==
    IsUpdate =>
        /\ ValidTSIG(req.msg) => Signed(resp)
        /\ ~ValidTSIG(req.msg) => ~Signed(resp)

\* the entry is rejected by the update processor: invalid, or an add with
\* no rdata
Rejected(rr) == Invalid(rr) \/ (rr.class = "IN" /\ rr.type = "TXT" /\ Len(rr.txt) = 0)

\* the store after the accepted entries rrs, applied in order to store s at
\* instant t: an add stores its joined rdata, a delete empties the store
RECURSIVE Applied(_, _, _)
Applied(rrs, s, t) ==
    IF rrs = <<>> THEN s
    ELSE Applied(Tail(rrs),
                 IF Head(rrs).class = "IN"
                 THEN [value |-> Join(Head(rrs).txt), set |-> TRUE, expiry |-> t + recordTTL]
                 ELSE [value |-> "", set |-> FALSE, expiry |-> s.expiry],
                 t)

\* the position of the first rejected entry of the last update
FirstRejected ==
    CHOOSE k \in 1..Len(req.msg.ns) :
        /\ Rejected(req.msg.ns[k])
        /\ \A j \in 1..(k - 1) : ~Rejected(req.msg.ns[j])

(* C6: when entry k+1 of an authenticated update is rejected, the response   *)
(* is REFUSED or FORMERROR and the store is the store before the message     *)
(* with entries 1..k applied in order: no rollback, and no entry after k+1   *)
(* is applied.                                                               *)
C6_NoRollback ==
    (IsAuthUpdate /\ \E k \in 1..Len(req.msg.ns) : Rejected(req.msg.ns[k]))
    => /\ resp.rcode \in {"REFUSED", "FORMERR"}
       /\ Content(store) = Content(Applied(SubSeq(req.msg.ns, 1, FirstRejected - 1), pre, At))
       /\ FirstRejected = 1 => store = pre
       /\ (FirstRejected = 2 /\ req.msg.ns[1].class = "IN") => store.expiry = At + recordTTL
       /\ (FirstRejected = 2 /\ req.msg.ns[1].class # "IN") => store.expiry = pre.expiry

\* the first entry stored "a" over "ba", the second was refused, and the
\* response was written after the clock had moved
C6_Witness ==
    /\ IsAuthUpdate
    /\ Len(req.msg.ns) = 2
    /\ ~Rejected(req.msg.ns[1]) /\ Rejected(req.msg.ns[2])
    /\ resp.rcode = "REFUSED"
    /\ Get(pre, At) = <<"ba", TRUE>>
    /\ Get(store, now) = <<"a", TRUE>>
    /\ now > At

\* the last step answered a query for the challenge name
IsChallengeQuery ==
    /\ IsQuery
    /\ Len(req.msg.question) = 1
    /\ AtChallenge(req.msg.question[1])

(* C7: once more than the 10-minute TTL has passed since the last Set, with  *)
(* no Delete after it, Get() returns ("", false) and a query for the         *)
(* challenge name gets no TXT answer.                                        *)
C7_ExpiresAfterTTL ==
    /\ (lastWrite.op = "Set" /\ now > lastWrite.at + recordTTL)
          => Get(store, now) = <<"", FALSE>>
    /\ (lastWrite.op = "Set" /\ IsChallengeQuery /\ At > lastWrite.at + recordTTL)
          => (got = <<"", FALSE>> /\ resp.answer = <<>>)

\* a TXT query for the challenge name answered after the value expired
C7_Witness ==
    /\ lastWrite.op = "Set" /\ At > lastWrite.at + recordTTL
    /\ store.set /\ store.value = "a"
    /\ IsChallengeQuery /\ req.msg.question[1].type = "TXT"
    /\ resp.rcode = "NOERROR" /\ resp.answer = <<>>

\* what Get() is to return by the history of the calls, within the TTL
Register ==
    IF lastWrite.op = "Set" THEN <<lastWrite.value, TRUE>> ELSE <<"", FALSE>>

(* C8: with no expiry elapsed, Get() returns (v, true) for the v of the last *)
(* Set when the last write was a Set, and ("", false) when it was a Delete   *)
(* or when nothing was ever set.                                             *)
C8_SingleSlotRegister ==
    (lastWrite.op = "Set" => now <= lastWrite.at + recordTTL)
    => /\ Get(store, now) = Register
       /\ req.op = "Get" => got = Register

\* Set("a") then Set("b"), read within the TTL: the second value is returned
C8_Witness ==
    /\ req.op = "Get"
    /\ pre.set /\ lastWrite = [op |-> "Set", value |-> "b", at |-> 5]
    /\ now = 15
    /\ got = <<"b", TRUE>>

(* C9: Delete() can always be called; after it Get() returns ("", false),    *)
(* also on a store that held nothing, and a second Delete() leaves the store *)
(* as the first left it.                                                     *)
C9_DeleteIdempotent ==
    /\ ENABLED CallDelete
    /\ req.op = "Delete" =>
          /\ Get(store, now) = <<"", FALSE>>
          /\ ~pre.set => store = pre

\* a Delete on a store that a Delete had emptied
C9_Witness ==
    /\ req.op = "Delete"
    /\ ~pre.set /\ ~store.set
    /\ lastWrite.op = "Delete"
    /\ pre.expiry > 0

(* C10: a TXT or ANY query for the challenge name, made while the store      *)
(* holds the unexpired value tok, is answered NOERROR with one answer, the   *)
(* TXT record at the challenge name with TTL 60 and the single string tok,   *)
(* and with an empty authority section.                                      *)
C10_ChallengeAnswer ==
    (IsChallengeQuery /\ req.msg.question[1].type \in {"TXT", "ANY"} /\ Unexpired(At))
    => /\ resp.rcode = "NOERROR"
       /\ resp.answer = <<[name |-> <<"_acme-challenge", "example", "com">>,
                           class |-> "IN", type |-> "TXT", ttl |-> 60,
                           txt |-> <<lastWrite.value>>]>>
       /\ resp.ns = <<>>

\* an ANY query in mixed case, answered at the last minute of the TTL
C10_Witness ==
    /\ IsChallengeQuery
    /\ req.msg.question[1].name = ChallengeMixedCase
    /\ req.msg.question[1].type = "ANY"
    /\ lastWrite.op = "Set" /\ lastWrite.value = "ba" /\ At = lastWrite.at + recordTTL
    /\ got = <<"ba", TRUE>>
    /\ Len(resp.answer) = 1

\* the last step answered a query with one question
IsNameQuery == IsQuery /\ Len(req.msg.question) = 1

\* the name is the apex, letter case ignored
AtApex(n) == ToLower(n) = <<"example", "com">>

\* the name is the apex or a name under it
UnderApex(n) ==
    /\ Len(n) >= 2
    /\ ToLower(<<n[Len(n) - 1], n[Len(n)]>>) = <<"example", "com">>

\* the section is the synthesized SOA of the zone and nothing else
OnlySOA(section) ==
    section = <<[name |-> <<"example", "com">>, class |-> "IN", type |-> "SOA", ttl |-> 300,
                 ns |-> <<"ns1", "example", "com">>,
                 mbox |-> <<"hostmaster", "example", "com">>,
                 serial |-> 1, refresh |-> 3600, retry |-> 600, expire |-> 86400,
                 minttl |-> 300]>>

\* the NS record of the zone
TheNS ==
    [name |-> <<"example", "com">>, class |-> "IN", type |-> "NS", ttl |-> 300,
     ns |-> <<"ns1", "example", "com">>]

(* C11: a query for the challenge name is answered NODATA (NOERROR, no       *)
(* answer, the SOA alone in the authority section) whenever the store holds  *)
(* no value, or the value has expired, or the type is neither TXT nor ANY.   *)
C11_ChallengeNoData ==
    (IsChallengeQuery /\ (~Unexpired(At) \/ req.msg.question[1].type \notin {"TXT", "ANY"}))
    => /\ resp.rcode = "NOERROR"
       /\ resp.answer = <<>>
       /\ OnlySOA(resp.ns)

\* a type A query for the challenge name while an unexpired value is stored
C11_Witness ==
    /\ IsChallengeQuery /\ req.msg.question[1].type = "A"
    /\ Unexpired(At) /\ Get(store, At)[2]
    /\ got = NoGot
    /\ resp.rcode = "NOERROR" /\ resp.answer = <<>> /\ Len(resp.ns) = 1

(* C12: a query whose name is neither the apex nor under the apex is         *)
(* answered REFUSED with empty answer and authority sections, for every      *)
(* type and every state of the store.                                        *)
C12_OutsideZoneRefused ==
    (IsNameQuery /\ ~UnderApex(req.msg.question[1].name))
    => /\ resp.rcode = "REFUSED"
       /\ resp.answer = <<>>
       /\ resp.ns = <<>>

\* a TXT query for "com.", the parent of the zone, with a value stored
C12_Witness ==
    /\ IsNameQuery /\ req.msg.question[1] = [name |-> <<"com">>, type |-> "TXT"]
    /\ Fresh
    /\ resp.rcode = "REFUSED"

(* C13: a query for a name under the apex that is neither the apex nor the   *)
(* challenge name, names below the challenge name included, is answered      *)
(* NXDOMAIN with no answer and the SOA in the authority section.             *)
C13_UnknownNameNXDomain ==
    (/\ IsNameQuery
     /\ UnderApex(req.msg.question[1].name)
     /\ ~AtApex(req.msg.question[1].name)
     /\ ~AtChallenge(req.msg.question[1]))
    => /\ resp.rcode = "NXDOMAIN"
       /\ resp.answer = <<>>
       /\ OnlySOA(resp.ns)

\* a TXT query for a name below the challenge name, with a value stored
C13_Witness ==
    /\ IsNameQuery
    /\ req.msg.question[1] = [name |-> <<"x", "_acme-challenge", "example", "com">>,
                              type |-> "TXT"]
    /\ Fresh
    /\ resp.rcode = "NXDOMAIN"

\* the last step answered a query for the apex
IsApexQuery == IsNameQuery /\ AtApex(req.msg.question[1].name)

(* C14: a query for the apex is answered NOERROR with answer [SOA] for type  *)
(* SOA, [SOA, NS] for ANY, [NS] for NS, and for every other type no answer   *)
(* and the SOA in the authority section, whatever the store holds.           *)
C14_ApexAnswers ==
    IsApexQuery =>
        /\ resp.rcode = "NOERROR"
        /\ req.msg.question[1].type = "SOA" => (OnlySOA(resp.answer) /\ resp.ns = <<>>)
        /\ req.msg.question[1].type = "ANY" =>
              /\ Len(resp.answer) = 2
              /\ OnlySOA(<<resp.answer[1]>>)
              /\ resp.answer[2] = TheNS
              /\ resp.ns = <<>>
        /\ req.msg.question[1].type = "NS" => (resp.answer = <<TheNS>> /\ resp.ns = <<>>)
        /\ req.msg.question[1].type \notin {"SOA", "ANY", "NS"} =>
              (resp.answer = <<>> /\ OnlySOA(resp.ns))

\* an ANY query for the apex in upper case, with a value stored
C14_Witness ==
    /\ IsApexQuery
    /\ req.msg.question[1] = [name |-> <<"EXAMPLE", "COM">>, type |-> "ANY"]
    /\ Fresh
    /\ Len(resp.answer) = 2

\* the character-strings of an rdata, one after the other
RECURSIVE Concat(_)
Concat(txt) ==
    IF Len(txt) = 0 THEN ""
    ELSE Concat(SubSeq(txt, 1, Len(txt) - 1)) \o txt[Len(txt)]

\* the entry is an add of a TXT record at the challenge name
IsAdd(rr) == AtChallenge(rr) /\ rr.class = "IN" /\ rr.type = "TXT"

\* the values an add at the challenge name can carry
AddValues == { Concat(rr.txt) : rr \in { e \in UpdateEntries : IsAdd(e) /\ Len(e.txt) > 0 } }

(* C17: the store is absent or holds one value, the concatenated rdata of a  *)
(* class-IN TXT entry at the challenge name of an update that had a valid    *)
(* TSIG and a zone section naming the apex; no query and no update failing   *)
(* steps 1-5 changes the store.                                              *)
C17_StoreProvenance ==
    /\ ~store.set => store.value = ""
    /\ store.set => store.value \in AddValues
    /\ (req.op = "ServeDNS" /\ store # pre) =>
          /\ IsAuthUpdate
          /\ store.set =>
                \E k \in 1..Len(req.msg.ns) :
                    /\ IsAdd(req.msg.ns[k])
                    /\ Len(req.msg.ns[k].txt) > 0
                    /\ store.value = Concat(req.msg.ns[k].txt)
    /\ (IsQuery \/ (IsUpdate /\ ~(ValidTSIG(req.msg) /\ NamesApex(req.msg)))) => store = pre

\* an authenticated update has replaced the stored value "a" by "ba"
C17_Witness ==
    /\ IsAuthUpdate
    /\ pre.set /\ pre.value = "a"
    /\ store.set /\ store.value = "ba"

\* the rcode of the first failing step of the update processor on message m
FirstFailure(m) ==
    IF ~m.parsable THEN "FORMERR"
    ELSE IF ~m.tsig.present THEN "REFUSED"
    ELSE IF ToLower(m.tsig.name) # ToLower(TsigName) THEN "NOTAUTH"
    ELSE IF ~m.tsig.macOK THEN "NOTAUTH"
    ELSE IF ~NamesApex(m) THEN "REFUSED"
    ELSE IF \E k \in 1..Len(m.ns) : Rejected(m.ns[k])
    THEN LET k == CHOOSE k \in 1..Len(m.ns) :
                      Rejected(m.ns[k]) /\ \A j \in 1..(k - 1) : ~Rejected(m.ns[j])
         IN IF Invalid(m.ns[k]) THEN "REFUSED" ELSE "FORMERR"
    ELSE "NOERROR"

(* C18: the response code of an update is that of the first failing step in  *)
(* the order unparsable, no TSIG, wrong key name, bad MAC, zone section,     *)
(* then the entries in message order; when no step fails it is NOERROR.      *)
C18_FirstFailureDecides ==
    IsUpdate => resp.rcode = FirstFailure(req.msg)

\* a wrong key name and a wrong zone together are answered NOTAUTH
C18_Witness ==
    /\ IsUpdate /\ req.msg.parsable
    /\ req.msg.tsig.present /\ req.msg.tsig.name = OtherKey /\ req.msg.tsig.macOK
    /\ Len(req.msg.question) = 1 /\ req.msg.question[1].name = <<"www", "example", "com">>
    /\ Len(req.msg.ns) = 1 /\ req.msg.ns[1].class = "CH"
    /\ resp.rcode = "NOTAUTH"

\* entry k of the last update is the last one the update processor applied:
\* no entry up to k is rejected, and k is the last entry or the next is rejected
LastApplied(k) ==
    /\ k \in 1..Len(req.msg.ns)
    /\ \A j \in 1..k : ~Rejected(req.msg.ns[j])
    /\ k = Len(req.msg.ns) \/ Rejected(req.msg.ns[k + 1])

(* C20: for a class-IN TXT entry at the challenge name, empty rdata gives    *)
(* FORMERROR and the entry does not modify the store; otherwise the stored   *)
(* value is the character-strings of the rdata concatenated in order with no *)
(* separator, and a later TXT query returns it as one single string.         *)
C20_AddJoinsRdata ==
    /\ IsAuthUpdate =>
          \A k \in 1..Len(req.msg.ns) :
              (IsAdd(req.msg.ns[k]) /\ \A j \in 1..(k - 1) : ~Rejected(req.msg.ns[j])) =>
                  /\ Len(req.msg.ns[k].txt) = 0 =>
                        /\ resp.rcode = "FORMERR"
                        /\ Content(store) = Content(Applied(SubSeq(req.msg.ns, 1, k - 1), pre, At))
                        /\ k = 1 => store = pre
                  /\ (Len(req.msg.ns[k].txt) > 0 /\ LastApplied(k)) =>
                        /\ store.set
                        /\ store.value = Concat(req.msg.ns[k].txt)
                        /\ lastWrite.value = Concat(req.msg.ns[k].txt)
    /\ (IsChallengeQuery /\ req.msg.question[1].type = "TXT" /\ Unexpired(At)) =>
          /\ Len(resp.answer) = 1
          /\ resp.answer[1].txt = <<lastWrite.value>>
          /\ store.value = lastWrite.value

\* a TXT query answered with the one string "ba" that was sent as "b", "a"
C20_Witness ==
    /\ IsChallengeQuery /\ req.msg.question[1].type = "TXT" /\ Unexpired(At)
    /\ lastWrite.value = "ba"
    /\ resp.answer[1].txt = <<"ba">>

\* the one TXT answer of a reply, as the list of its character-strings
TXTAnswers(m) == [k \in 1..Len(m.answer) |-> m.answer[k].txt]

(* C16: an authenticated add of v, a TXT query for the challenge name, an    *)
(* authenticated delete and a second TXT query, each sent after the response *)
(* to the one before and within the TTL, are answered NOERROR, NOERROR with  *)
(* the single TXT answer v, NOERROR, and NOERROR with an empty answer.       *)
C16_AddQueryDeleteQuery ==
    LET n == Len(cycle.resps)
        inTTL(k) == cycle.at[k] <= cycle.at[1] + recordTTL
    IN
    /\ (n >= 1) => cycle.resps[1].rcode = "NOERROR"
    /\ (n >= 2 /\ inTTL(2)) =>
          /\ cycle.resps[2].rcode = "NOERROR"
          /\ TXTAnswers(cycle.resps[2]) = << <<Concat(cycle.txt)>> >>
    /\ (n >= 3 /\ inTTL(3)) => cycle.resps[3].rcode = "NOERROR"
    /\ (n >= 4 /\ inTTL(4)) =>
          /\ cycle.resps[4].rcode = "NOERROR"
          /\ cycle.resps[4].answer = <<>>

\* the four exchanges are over, time has passed between the add and the
\* first query, and the value "ba" was returned
C16_Witness ==
    /\ cycle.step = 4
    /\ Len(cycle.resps) = 4
    /\ cycle.at[2] > cycle.at[1]
    /\ cycle.at[4] <= cycle.at[1] + recordTTL
    /\ cycle.txt = <<"b", "a">>
    /\ TXTAnswers(cycle.resps[2]) = << <<"ba">> >>
    /\ cycle.resps[4].answer = <<>>

\* goroutine p is inside Get, between RLock and RUnlock
InGet(p) == handlers[p].pc = "rcs"

\* goroutine p is inside Set or Delete, between Lock and Unlock
InSetOrDelete(p) == handlers[p].pc = "wcs"

(* C15: under any interleaving, no Set or Delete is in its critical section  *)
(* together with any other Get, Set or Delete.                               *)
C15_WritersExclusive ==
    \A p \in Handlers, q \in Handlers :
        (p # q /\ InSetOrDelete(p)) => (~InSetOrDelete(q) /\ ~InGet(q))

\* two Gets are in their critical sections at once, reading a value that a
\* Set has stored
C15_Witness ==
    /\ store.set
    /\ \E p \in Handlers, q \in Handlers : p # q /\ InGet(p) /\ InGet(q)

(* C19: every handler invocation terminates, having written exactly one      *)
(* response, when the store lock is granted fairly: a handler writes nothing *)
(* before it responds, one message when it responds, and every invocation    *)
(* that has started reaches its return.                                      *)
C19_OneResponseThenReturn ==
    /\ [](\A p \in Handlers :
             Len(handlers[p].out) = IF handlers[p].pc = "done" THEN 1 ELSE 0)
    /\ \A p \in Handlers : (handlers[p].pc # "idle") ~> (handlers[p].pc = "done")

\* an update has returned with its response written, after it had to wait
\* for the lock: the other goroutine is in Get
C19_Witness ==
    \E p \in Handlers, q \in Handlers :
        /\ handlers[p].pc = "done" /\ Len(handlers[p].out) = 1
        /\ handlers[p].msg.opcode = "UPDATE" /\ handlers[p].out[1].rcode = "NOERROR"
        /\ InGet(q)

(* C21: expiry is measured from the most recent Set: Get() returns found at   *)
(* every instant up to 10 minutes after the last Set when no Delete followed *)
(* it, whenever earlier Sets were made, and a Set made after a value expired *)
(* makes the record present again for a fresh 10 minutes.                    *)
C21_ExpiryFromLastSet ==
    /\ (lastWrite.op = "Set" /\ now <= lastWrite.at + recordTTL) =>
          /\ Get(store, now)[2]
          /\ req.op = "Get" => got[2]
    /\ req.op = "Set" =>
          /\ \A t \in now..(now + recordTTL) : Get(store, t) = <<req.value, TRUE>>
          /\ ~Get(store, now + recordTTL + 1)[2]

\* a Set made on a value that had expired, the record is present again
C21_Witness ==
    /\ req.op = "Set"
    /\ pre.set /\ pre.expiry < now /\ Get(pre, now) = <<"", FALSE>>
    /\ Get(store, now) = <<req.value, TRUE>>
    /\ store.expiry = now + recordTTL

(* C22: reads never write: Get() and every query, whatever its name, type   *)
(* and outcome, leave the value, the presence flag and the expiry as they    *)
(* were; an expired value stays stored until the next Set or Delete, and no  *)
(* step in the background removes it.                                        *)
C22_ReadsNeverWrite ==
    /\ (IsQuery \/ req.op = "Get") => store = pre
    /\ lastWrite.op = "Set" =>
          store = [value |-> lastWrite.value, set |-> TRUE,
                   expiry |-> lastWrite.at + recordTTL]
    /\ lastWrite.op = "Delete" => (~store.set /\ store.value = "")

\* a TXT query for the challenge name has read the expired value "ba", which
\* is still stored
C22_Witness ==
    /\ IsChallengeQuery /\ req.msg.question[1].type = "TXT"
    /\ lastWrite.op = "Set" /\ At > lastWrite.at + recordTTL
    /\ got = <<"", FALSE>>
    /\ pre = [value |-> "ba", set |-> TRUE, expiry |-> lastWrite.at + recordTTL]
    /\ store = pre

\* the reply with nothing but a response code and the authoritative flag
BareReply(rcode) ==
    [rcode |-> rcode, aa |-> TRUE, answer |-> <<>>, ns |-> <<>>, pseudo |-> <<>>]

(* C23: every query response is marked authoritative and is produced with no *)
(* authentication check: a query with no TSIG or with an invalid one is      *)
(* answered as the same query with any other TSIG; a query with an empty     *)
(* question section is answered FORMERROR with no sections and without a     *)
(* read of the store.                                                        *)
C23_QueriesUnauthenticated ==
    IsQuery =>
        /\ resp.aa
        /\ resp.rcode # "NOTAUTH"
        /\ \A t \in TSIGs : resp = handleQuery([req.msg EXCEPT !.tsig = t], pre, At)
        /\ Len(req.msg.question) = 0 =>
              /\ resp = BareReply("FORMERR")
              /\ ~CallsGet(req.msg)
              /\ got = NoGot
              /\ \A v \in Values, f \in BOOLEAN :
                    resp = handleQuery(req.msg, [value |-> v, set |-> f, expiry |-> MaxTime], At)

\* a TXT query for the challenge name carrying a TSIG of another key with a
\* MAC that does not verify, answered with the stored value
C23_Witness ==
    /\ IsChallengeQuery /\ req.msg.question[1].type = "TXT"
    /\ req.msg.tsig = [present |-> TRUE, name |-> OtherKey, macOK |-> FALSE]
    /\ Unexpired(At)
    /\ resp.aa /\ resp.rcode = "NOERROR" /\ Len(resp.answer) = 1

(* C24: dispatch is by opcode alone: a message with opcode UPDATE gets the    *)
(* response of the update processor, never that of the query responder; a    *)
(* message with any other opcode gets the response of the query responder    *)
(* and does not change the store.                                            *)
C24_DispatchByOpcode ==
    req.op = "ServeDNS" =>
        /\ req.msg.opcode = "UPDATE" =>
              /\ ~resp.aa /\ resp.answer = <<>> /\ resp.ns = <<>>
              /\ resp.rcode = FirstFailure(req.msg)
        /\ req.msg.opcode # "UPDATE" =>
              /\ resp.aa
              /\ resp = handleQuery(req.msg, pre, At)
              /\ store = pre
              /\ lastWrite.op = "Set" => store.value = lastWrite.value

\* a NOTIFY message with the content of an authenticated add is answered as
\* a SOA query for the apex, and the stored value "ba" stays
C24_Witness ==
    /\ req.op = "ServeDNS" /\ req.msg.opcode = "NOTIFY"
    /\ ValidTSIG(req.msg) /\ NamesApex(req.msg)
    /\ Len(req.msg.ns) = 1 /\ IsAdd(req.msg.ns[1]) /\ req.msg.ns[1].txt = <<"a">>
    /\ pre.set /\ pre.value = "ba" /\ store = pre
    /\ resp.aa /\ OnlySOA(resp.answer)

\* goroutine p runs a query whose Get has returned and whose response is not
\* yet written
GetDone(p) ==
    /\ handlers[p].pc = "write"
    /\ handlers[p].msg.opcode # "UPDATE"
    /\ CallsGet(handlers[p].msg)

\* what the Get of goroutine p returned
Gotten(p) == Get(handlers[p].snap, handlers[p].at)

\* the arguments of the Set calls the messages lead to
SetArguments ==
    UNION { { Concat(m.ns[k].txt) : k \in { j \in 1..Len(m.ns) : IsAdd(m.ns[j]) } } :
            m \in ConcMessages }

(* C25: concurrent Gets are linearizable against Sets and Deletes: a Get     *)
(* returns ("", false) or (v, true) with v the argument of a Set, and what   *)
(* it returns is what the Store held, by the Sets and Deletes that had taken *)
(* effect, at an instant of the Get; it never returns a mix of two writes.   *)
C25_GetsLinearizable ==
    \A p \in Handlers :
        GetDone(p) =>
            /\ Gotten(p) = <<"", FALSE>> \/ (Gotten(p)[2] /\ Gotten(p)[1] \in SetArguments)
            /\ Gotten(p) = Get(handlers[p].seen, handlers[p].at)

\* a Get has returned the value "a" and, before its query is answered, the
\* other goroutine has deleted the value and is inside the next Set
C25_Witness ==
    \E p \in Handlers, q \in Handlers :
        /\ GetDone(p) /\ Gotten(p) = <<"a", TRUE>>
        /\ handlers[q].pc = "wcs2" /\ handlers[q].i = 2
        /\ store.value = "ba" /\ ~store.set

\* goroutine p is writing the fields of the Store
Writing(p) == handlers[p].pc \in {"wcs", "wcs2", "wcs3"}

\* goroutine p has answered a query that read the Store
Answered(p) ==
    /\ handlers[p].pc = "done"
    /\ handlers[p].msg.opcode # "UPDATE"
    /\ CallsGet(handlers[p].msg)

(* C26: concurrent updates are atomic per entry, not per message: whenever   *)
(* no Set or Delete is under way the Store is what the entries of the        *)
(* messages give when applied one at a time, in the order they took effect   *)
(* and each message's entries in their own order; and a query handled at the *)
(* same time is answered from the Store as it was between two entries.       *)
C26_AtomicPerEntry ==
    /\ (\A p \in Handlers : ~Writing(p)) => store = lin
    /\ \A p \in Handlers : Writing(p) =>
          /\ \A q \in Handlers \ {p} : ~Writing(q)
          /\ handlers[p].pc = "wcs" => store = lin
          /\ handlers[p].pc = "wcs3" =>
                [store EXCEPT !.set = (handlers[p].msg.ns[handlers[p].i].class = "IN")]
                   = updateEntry(handlers[p].msg.ns[handlers[p].i], lin, handlers[p].at).store
    /\ \A p \in Handlers :
          Answered(p) =>
              handlers[p].out =
                 <<handleQuery(handlers[p].msg, handlers[p].seen, handlers[p].at)>>

\* the add of one message is writing its last field between the delete and
\* the add of another, which waits for the lock; the clock has moved since
\* the add read it
C26_Witness ==
    \E p \in Handlers, q \in Handlers :
        /\ handlers[p].pc = "lock" /\ handlers[p].i = 2
        /\ handlers[p].msg.ns[1].class = "ANY"
        /\ Writing(q) /\ handlers[q].pc = "wcs3" /\ handlers[q].i = 1
        /\ handlers[q].msg.ns[1].txt = <<"a">>
        /\ store.value = "a" /\ ~store.set
        /\ ~lin.set /\ lin.value = ""
        /\ store.expiry = handlers[q].at + recordTTL /\ now > handlers[q].at

TypeOK ==
    /\ store.set \in BOOLEAN
    /\ now \in 0..MaxTime

====
